---- MODULE Spec2Model ----
(***************************************************************************)
(* Combat resolution engine of WaveHungerGame (src/WHG.cpp): the Unit      *)
(* data model, the skills of the four unit classes, the round loop of      *)
(* gameLoop and the stage/reward loop around it.                           *)
(***************************************************************************)
EXTENDS Integers, Sequences, FiniteSets, TLC

VARIABLES
    player,       \* the Unit created by createPlayer
    boss,         \* the BossUnit of the current stage (NoUnit when none exists)
    stage,        \* loop variable of gameLoop's stage loop
    playerFirst,  \* result of coinFlip for the current battle
    pc,           \* position in gameLoop
    round,        \* iterations of the round loop entered in the current battle
    focus,        \* the phase whose inputs are explored freely (see FocusStage)
    call          \* the call in progress with its inputs: coinFlip's choice and
                  \* coin, or the last direct call of the unit-level harness

vars == <<player, boss, stage, playerFirst, pc, round, focus, call>>

(***************************************************************************)
(* Bounds of the exploration.                                              *)
(***************************************************************************)
\* rounds of one battle that are explored
MaxRounds == 3
\* phases (battle of stage 1, rewards of stage 1, battle of stage 2, ...) of
\* which one is explored with free inputs
MaxFocus == 10
\* direct calls that lower a value or add an entry (takeDamage, addStatus,
\* increaseAttack, addItem) made by the unit-level harness
MaxCalls == 2
\* longest duration given to addStatus by the unit-level harness
MaxDuration == 3
\* potions handed to the subject of the unit-level harness
MaxPotions == 3

(***************************************************************************)
(* Program constants.                                                      *)
(***************************************************************************)
NumStages == 5
PoisonDamage == 5
BleedDamage == 3
StrengthBonus == 10
WeaknessPenalty == 5
BossMana == 60
HealthPotionAmount == 30
ManaPotionAmount == 20

Max(a, b) == IF a >= b THEN a ELSE b
Min(a, b) == IF a <= b THEN a ELSE b

\* StatusEffect, in the order of the enum (the key order of std::map)
StatusOrder == <<"POISON", "BLEED", "STUN", "STRENGTH_UP", "WEAKNESS">>

NoStatus == [e \in {} |-> 0]

(***************************************************************************)
(* Unit.  battleLog keeps, of the narration strings, the entries that      *)
(* carry numbers or decisions: kind, up to three numbers and the source    *)
(* text.  A "damage" entry holds actualDamage, prevHealth and health.      *)
(***************************************************************************)
Entry(kind, a, b, c, src) == [kind |-> kind, a |-> a, b |-> b, c |-> c, src |-> src]

Unit(cls, hp, mp, atk, def) ==
    [cls |-> cls, maxHealth |-> hp, health |-> hp, maxMana |-> mp, mana |-> mp,
     baseAttack |-> atk, currentAttack |-> atk, defense |-> def,
     statusEffects |-> NoStatus, equipment |-> <<>>, potions |-> <<>>,
     battleLog |-> <<>>]

Warrior == Unit("Warrior", 120, 50, 20, 2)
Archer == Unit("Archer", 80, 35, 30, 1)
Mage == Unit("Mage", 70, 80, 25, 0)
\* a boss constructed without its defense argument
BossUnitNoDefense(atk, hp, def) == Unit("Boss", hp, BossMana, atk, 0)

BossUnit(atk, hp, def) == Unit("Boss", hp, BossMana, atk, def)

\* placeholder while no boss object exists
NoUnit == Unit("None", 0, 0, 0, 0)

createPlayer(choice) ==
    CASE choice = 1 -> Warrior
      [] choice = 2 -> Archer
      [] choice = 3 -> Mage
      [] OTHER -> Warrior

isAlive(u) == u.health > 0

addToBattleLog(u, e) == [u EXCEPT !.battleLog = Append(@, e)]

clearBattleLog(u) == [u EXCEPT !.battleLog = <<>>]

\* takeDamage without the clamp of health at zero
takeDamageUnclamped(u, dmg, source) ==
    LET actualDamage == Max(1, dmg - u.defense)
        newHealth == u.health - actualDamage
    IN  [u EXCEPT !.health = newHealth,
                  !.battleLog = Append(@, Entry("damage", actualDamage, u.health, newHealth, source))]

\* takeDamage without the floor of one point of damage
takeDamageNoFloor(u, dmg, source) ==
    LET actualDamage == Max(0, dmg - u.defense)
        newHealth == Max(0, u.health - actualDamage)
    IN  [u EXCEPT !.health = newHealth,
                  !.battleLog = Append(@, Entry("damage", actualDamage, u.health, newHealth, source))]

takeDamage(u, dmg, source) ==
    LET actualDamage == Max(1, dmg - u.defense)
        newHealth == Max(0, u.health - actualDamage)
    IN  [u EXCEPT !.health = newHealth,
                  !.battleLog = Append(@, Entry("damage", actualDamage, u.health, newHealth, source))]

\* heal without the cap at maxHealth
healUncapped(u, amount) ==
    LET newHealth == u.health + amount
    IN  [u EXCEPT !.health = newHealth,
                  !.battleLog = Append(@, Entry("heal", newHealth - u.health, newHealth, u.maxHealth, ""))]

heal(u, amount) ==
    LET newHealth == Min(u.maxHealth, u.health + amount)
    IN  [u EXCEPT !.health = newHealth,
                  !.battleLog = Append(@, Entry("heal", newHealth - u.health, newHealth, u.maxHealth, ""))]

restoreMana(u, amount) ==
    LET newMana == Min(u.maxMana, u.mana + amount)
    IN  [u EXCEPT !.mana = newMana,
                  !.battleLog = Append(@, Entry("mana", newMana - u.mana, newMana, u.maxMana, ""))]

increaseMaxHealth(u, amount) ==
    [u EXCEPT !.maxHealth = @ + amount, !.health = @ + amount]

increaseMaxMana(u, amount) ==
    [u EXCEPT !.maxMana = @ + amount, !.mana = @ + amount]

increaseAttack(u, amount) ==
    [u EXCEPT !.baseAttack = @ + amount, !.currentAttack = u.baseAttack + amount]

increaseDefense(u, amount) == [u EXCEPT !.defense = @ + amount]

(***************************************************************************)
(* Status effects.                                                         *)
(***************************************************************************)
\* addStatus that adds the new duration to the one already stored
addStatusSums(u, effect, duration) ==
    [u EXCEPT !.statusEffects =
        [e \in (DOMAIN u.statusEffects) \cup {effect} |->
            IF e = effect
            THEN (IF e \in DOMAIN u.statusEffects THEN u.statusEffects[e] ELSE 0) + duration
            ELSE u.statusEffects[e]]]

addStatus(u, effect, duration) ==
    [u EXCEPT !.statusEffects =
        [e \in (DOMAIN u.statusEffects) \cup {effect} |->
            IF e = effect THEN duration ELSE u.statusEffects[e]]]

hasStatus(u, effect) ==
    effect \in DOMAIN u.statusEffects /\ u.statusEffects[effect] > 0

\* clearStatus that leaves the entry in the map
clearStatusKept(u, effect) == u

clearStatus(u, effect) ==
    [u EXCEPT !.statusEffects =
        [e \in (DOMAIN u.statusEffects) \ {effect} |-> u.statusEffects[e]]]

\* the switch with POISON and BLEED taken from health past the defense
applyEffectPastDefense(u, effect) ==
    CASE effect = "POISON" -> [u EXCEPT !.health = Max(0, @ - PoisonDamage)]
      [] effect = "BLEED" -> [u EXCEPT !.health = Max(0, @ - BleedDamage)]
      [] effect = "STRENGTH_UP" -> [u EXCEPT !.currentAttack = u.baseAttack + StrengthBonus]
      [] effect = "WEAKNESS" ->
            [u EXCEPT !.currentAttack = Max(1, u.baseAttack - WeaknessPenalty)]
      [] OTHER -> u

\* the switch of processStatusEffects for one entry of the map
applyEffect(u, effect) ==
    CASE effect = "POISON" -> takeDamage(u, PoisonDamage, "Poison")
      [] effect = "BLEED" -> takeDamage(u, BleedDamage, "Bleed")
      [] effect = "STRENGTH_UP" -> [u EXCEPT !.currentAttack = u.baseAttack + StrengthBonus]
      [] effect = "WEAKNESS" ->
            [u EXCEPT !.currentAttack = Max(1, u.baseAttack - WeaknessPenalty)]
      [] OTHER -> u

\* the body of the range-for for one entry: the switch, and the narration
\* of an effect whose duration runs out
tickEntry(u, effect) ==
    IF u.statusEffects[effect] - 1 <= 0
    THEN addToBattleLog(applyEffect(u, effect), Entry("woreOff", 0, 0, 0, effect))
    ELSE applyEffect(u, effect)

\* the range-for over the map, in key order, from position i on
RECURSIVE applyEffectsFrom(_, _)
applyEffectsFrom(u, i) ==
    IF i > Len(StatusOrder) THEN u
    ELSE IF StatusOrder[i] \in DOMAIN u.statusEffects
         THEN applyEffectsFrom(tickEntry(u, StatusOrder[i]), i + 1)
         ELSE applyEffectsFrom(u, i + 1)

\* processStatusEffects without the reset of currentAttack on removal
processStatusEffectsNoReset(u) ==
    LET applied == applyEffectsFrom(u, 1)
        ticked == [e \in DOMAIN u.statusEffects |-> u.statusEffects[e] - 1]
        toRemove == {e \in DOMAIN ticked : ticked[e] <= 0}
    IN  [applied EXCEPT
            !.statusEffects = [e \in (DOMAIN ticked) \ toRemove |-> ticked[e]]]

processStatusEffects(u) ==
    LET applied == applyEffectsFrom(u, 1)
        ticked == [e \in DOMAIN u.statusEffects |-> u.statusEffects[e] - 1]
        toRemove == {e \in DOMAIN ticked : ticked[e] <= 0}
    IN  [applied EXCEPT
            !.statusEffects = [e \in (DOMAIN ticked) \ toRemove |-> ticked[e]],
            !.currentAttack =
                IF toRemove \cap {"STRENGTH_UP", "WEAKNESS"} # {}
                THEN applied.baseAttack ELSE @]

(***************************************************************************)
(* Combat actions.  A skill returns the success flag and both units.       *)
(***************************************************************************)
Outcome(ok, self, target) == [ok |-> ok, self |-> self, target |-> target]

\* a basic attack that does not reach the target
attackMisses(self, target) ==
    Outcome(TRUE, addToBattleLog(self, Entry("attack", self.currentAttack, 0, 0, "")),
            target)

attack(self, target) ==
    Outcome(TRUE,
            addToBattleLog(self, Entry("attack", self.currentAttack, 0, 0, "")),
            takeDamage(target, self.currentAttack, ""))

getSkillCost(u, n) ==
    CASE u.cls = "Warrior" -> <<15, 10, 20>>[n]
      [] u.cls = "Archer" -> <<10, 15, 20>>[n]
      [] u.cls = "Mage" -> <<20, 15, 25>>[n]
      [] OTHER -> <<15, 20, 25>>[n]

\* a failure branch that still takes the caster's mana
notEnoughMPSpends(self, target, n) ==
    Outcome(FALSE, addToBattleLog([self EXCEPT !.mana = 0], Entry("nomp", n, 0, 0, "")),
            target)

\* the failure branch shared by all skills
notEnoughMP(self, target, n) ==
    Outcome(FALSE, addToBattleLog(self, Entry("nomp", n, 0, 0, "")), target)

\* the narration of the skill without the debit of the cost
spendNothing(self, n, dmg) ==
    addToBattleLog(self, Entry("skill", n, dmg, 0, ""))

\* mana -= cost, and the narration of the skill with its damage
spend(self, n, dmg) ==
    addToBattleLog([self EXCEPT !.mana = @ - getSkillCost(self, n)],
                   Entry("skill", n, dmg, 0, ""))

\* Power Strike
WarriorSkill1(self, target) ==
    IF self.mana < getSkillCost(self, 1) THEN notEnoughMP(self, target, 1)
    ELSE LET dmg == self.currentAttack + 25
         IN  Outcome(TRUE, spend(self, 1, dmg), takeDamage(target, dmg, ""))

\* Demoralizing Shout
WarriorSkill2(self, target) ==
    IF self.mana < getSkillCost(self, 2) THEN notEnoughMP(self, target, 2)
    ELSE Outcome(TRUE, spend(self, 2, 0), addStatus(target, "WEAKNESS", 3))

\* Battle Rage
WarriorSkill3(self, target) ==
    IF self.mana < getSkillCost(self, 3) THEN notEnoughMP(self, target, 3)
    ELSE Outcome(TRUE, addStatus(spend(self, 3, 0), "STRENGTH_UP", 3), target)

\* Poison Arrow
ArcherSkill1(self, target) ==
    IF self.mana < getSkillCost(self, 1) THEN notEnoughMP(self, target, 1)
    ELSE LET dmg == self.currentAttack
         IN  Outcome(TRUE, spend(self, 1, dmg),
                     addStatus(takeDamage(target, dmg, ""), "POISON", 3))

\* Piercing Shot
ArcherSkill2(self, target) ==
    IF self.mana < getSkillCost(self, 2) THEN notEnoughMP(self, target, 2)
    ELSE LET dmg == self.currentAttack + 10
         IN  Outcome(TRUE, spend(self, 2, dmg),
                     addStatus(takeDamage(target, dmg, ""), "BLEED", 2))

\* Double Shot
ArcherSkill3(self, target) ==
    IF self.mana < getSkillCost(self, 3) THEN notEnoughMP(self, target, 3)
    ELSE Outcome(TRUE, spend(self, 3, self.currentAttack),
                 takeDamage(takeDamage(target, self.currentAttack, ""),
                            self.currentAttack, ""))

\* Fireball
MageSkill1(self, target) ==
    IF self.mana < getSkillCost(self, 1) THEN notEnoughMP(self, target, 1)
    ELSE LET dmg == self.currentAttack + 20
         IN  Outcome(TRUE, spend(self, 1, dmg), takeDamage(target, dmg, ""))

\* Ice Nova
MageSkill2(self, target) ==
    IF self.mana < getSkillCost(self, 2) THEN notEnoughMP(self, target, 2)
    ELSE Outcome(TRUE, spend(self, 2, 0), addStatus(target, "STUN", 1))

\* Life Drain that heals the full damage amount
MageSkill3FullHeal(self, target) ==
    IF self.mana < getSkillCost(self, 3) THEN notEnoughMP(self, target, 3)
    ELSE LET dmg == self.currentAttack + 5
         IN  Outcome(TRUE, heal(spend(self, 3, dmg), dmg),
                     takeDamage(target, dmg, ""))

\* Life Drain
MageSkill3(self, target) ==
    IF self.mana < getSkillCost(self, 3) THEN notEnoughMP(self, target, 3)
    ELSE LET dmg == self.currentAttack + 5
         IN  Outcome(TRUE, heal(spend(self, 3, dmg), dmg \div 2),
                     takeDamage(target, dmg, ""))

BossSkill1(self, target) ==
    IF self.mana < getSkillCost(self, 1) THEN notEnoughMP(self, target, 1)
    ELSE LET dmg == self.currentAttack + 20
         IN  Outcome(TRUE, spend(self, 1, dmg), takeDamage(target, dmg, ""))

BossSkill2(self, target) ==
    IF self.mana < getSkillCost(self, 2) THEN notEnoughMP(self, target, 2)
    ELSE LET dmg == self.currentAttack + 15
         IN  Outcome(TRUE, spend(self, 2, dmg),
                     addStatus(takeDamage(target, dmg, ""), "POISON", 3))

\* the boss's third skill restoring mana instead of health
BossSkill3RestoresMana(self, target) ==
    IF self.mana < getSkillCost(self, 3) THEN notEnoughMP(self, target, 3)
    ELSE LET dmg == self.currentAttack + 10
         IN  Outcome(TRUE, restoreMana(spend(self, 3, dmg), 20),
                     addStatus(takeDamage(target, dmg, ""), "STUN", 1))

BossSkill3(self, target) ==
    IF self.mana < getSkillCost(self, 3) THEN notEnoughMP(self, target, 3)
    ELSE LET dmg == self.currentAttack + 10
         IN  Outcome(TRUE, heal(spend(self, 3, dmg), 20),
                     addStatus(takeDamage(target, dmg, ""), "STUN", 1))

\* virtual dispatch of useSkill1, useSkill2, useSkill3
useSkill(self, target, n) ==
    CASE self.cls = "Warrior" ->
            (CASE n = 1 -> WarriorSkill1(self, target)
               [] n = 2 -> WarriorSkill2(self, target)
               [] OTHER -> WarriorSkill3(self, target))
      [] self.cls = "Archer" ->
            (CASE n = 1 -> ArcherSkill1(self, target)
               [] n = 2 -> ArcherSkill2(self, target)
               [] OTHER -> ArcherSkill3(self, target))
      [] self.cls = "Mage" ->
            (CASE n = 1 -> MageSkill1(self, target)
               [] n = 2 -> MageSkill2(self, target)
               [] OTHER -> MageSkill3(self, target))
      [] OTHER ->
            (CASE n = 1 -> BossSkill1(self, target)
               [] n = 2 -> BossSkill2(self, target)
               [] OTHER -> BossSkill3(self, target))

showSkillsMenu(p, target, skillChoice) ==
    LET r == useSkill(p, target, skillChoice)
    IN  IF r.ok THEN r ELSE attack(r.self, r.target)

\* the boss's branch of the round loop on bossAction = rand() % 4
bossDispatch(b, p, bossAction) ==
    IF bossAction = 3 THEN attack(b, p) ELSE useSkill(b, p, bossAction + 1)

(***************************************************************************)
(* Items and potions.                                                      *)
(***************************************************************************)
Potion(amount, health) == [amount |-> amount, isHealth |-> health]

Item(name, atk, hp, def, mp) ==
    [name |-> name, attackBonus |-> atk, healthBonus |-> hp,
     defenseBonus |-> def, manaBonus |-> mp]

\* allItems of generateRandomItems, in its order
allItems ==
    << Item("Fire Sword", 15, 0, 0, 0),
       Item("Ice Shield", 0, 20, 10, 0),
       Item("Vampire Ring", 5, 0, 0, 0),
       Item("Poison Dagger", 8, 0, 0, 0),
       Item("Dragon Scale", 10, 30, 5, 0),
       Item("Lightning Orb", 12, 0, 0, 0) >>

\* FireSword::applyEffect .. LightningOrb::applyEffect
applyItemEffect(u, item) ==
    CASE item.name \in {"Fire Sword", "Vampire Ring", "Poison Dagger", "Lightning Orb"} ->
            increaseAttack(u, item.attackBonus)
      [] item.name = "Ice Shield" ->
            increaseDefense(increaseMaxHealth(u, item.healthBonus), item.defenseBonus)
      [] item.name = "Dragon Scale" ->
            increaseDefense(
                increaseMaxHealth(increaseAttack(u, item.attackBonus), item.healthBonus),
                item.defenseBonus)
      [] OTHER -> u

\* addItem that applies the effect of the item a second time
addItemTwice(u, item) ==
    applyItemEffect(applyItemEffect([u EXCEPT !.equipment = Append(@, item.name)], item),
                    item)

\* addItem for an equipment item
addItem(u, item) ==
    applyItemEffect([u EXCEPT !.equipment = Append(@, item.name)], item)

\* addItem for a HealthPotion (TRUE) or a ManaPotion (FALSE)
addPotion(u, health) ==
    [u EXCEPT !.potions =
        Append(@, IF health THEN Potion(HealthPotionAmount, TRUE)
                  ELSE Potion(ManaPotionAmount, FALSE))]

RECURSIVE addPotions(_, _)
addPotions(u, drops) ==
    IF drops = <<>> THEN u ELSE addPotions(addPotion(u, Head(drops)), Tail(drops))

\* erase of the last element instead of the element at the index
RemoveLast(s, i) == SubSeq(s, 1, Len(s) - 1)

RemoveAt(s, i) == SubSeq(s, 1, i - 1) \o SubSeq(s, i + 1, Len(s))

\* usePotion that moves an index out of range to the nearest potion
usePotionClamped(u, index) ==
    IF u.potions = <<>> THEN [ok |-> FALSE, unit |-> u]
    ELSE LET k == Max(0, Min(index, Len(u.potions) - 1))
             potion == u.potions[k + 1]
             used == IF potion.isHealth THEN heal(u, potion.amount)
                     ELSE restoreMana(u, potion.amount)
         IN  [ok |-> TRUE,
              unit |-> [addToBattleLog(used, Entry("potion", potion.amount, 0, 0, ""))
                            EXCEPT !.potions = RemoveAt(u.potions, k + 1)]]

\* index counts from 0 as in the source
usePotion(u, index) ==
    IF index < 0 \/ index >= Len(u.potions) THEN [ok |-> FALSE, unit |-> u]
    ELSE LET potion == u.potions[index + 1]
             used == IF potion.isHealth THEN heal(u, potion.amount)
                     ELSE restoreMana(u, potion.amount)
         IN  [ok |-> TRUE,
              unit |-> [addToBattleLog(used, Entry("potion", potion.amount, 0, 0, ""))
                            EXCEPT !.potions = RemoveAt(u.potions, index + 1)]]

\* choice is the number read by showInventory (0 cancels); it is read only
\* when the unit owns potions
showInventory(u, choice) ==
    IF u.potions # <<>> /\ choice > 0 THEN usePotion(u, choice - 1)
    ELSE [ok |-> FALSE, unit |-> u]

(***************************************************************************)
(* Inputs.  One phase of the campaign, chosen by focus, is explored with   *)
(* every input the shell and rand() can deliver; the phases before it are  *)
(* played with the fixed inputs below, which lead the player to it.        *)
(***************************************************************************)
FocusStage == (focus + 1) \div 2
FreeBattle == stage = FocusStage /\ focus % 2 = 1
FreeReward == stage = FocusStage /\ focus % 2 = 0
\* the battle of the stage after the focus is not entered
Explored == stage <= FocusStage

\* the fixed inputs: the player wins the toss and uses skill 1 of the skills
\* menu, the boss draws the basic attack, a health and a mana potion drop,
\* the upgrade is the heal and the item the first of the offer
Script ==
    [choice |-> 1, coinResult |-> TRUE, skillChoice |-> 1, bossAction |-> 3,
     drops |-> <<TRUE, FALSE>>, upgrade |-> 1, offer |-> <<1, 2, 3>>, itemChoice |-> 1]

\* the sequences generateRandomPotions can return (TRUE: HealthPotion)
PotionDrops ==
    UNION {[1..n -> BOOLEAN] : n \in 1..3}

\* index triples drawn without the test against usedIndices
OffersWithRepeats == [1..3 -> 1..Len(allItems)]

\* the index triples generateRandomItems can draw
Offers ==
    {o \in [1..3 -> 1..Len(allItems)] : o[1] # o[2] /\ o[1] # o[3] /\ o[2] # o[3]}

\* coinFlip that ignores the side the player chose
coinFlipIgnoresChoice(choice, coinResult) == coinResult

coinFlip(choice, coinResult) ==
    (choice = 1 /\ coinResult) \/ (choice = 2 /\ ~coinResult)

Call(op, who, arg, ret, count, streak) ==
    [op |-> op, who |-> who, arg |-> arg, ret |-> ret, count |-> count, streak |-> streak]

NoCall == Call("none", "none", 0, FALSE, 0, 0)

(***************************************************************************)
(* gameLoop.                                                               *)
(***************************************************************************)
\* the test after the round loop without the test of the player
afterBattleAlwaysWon(p) == "drop"

\* the test after the round loop made on the boss instead of the player
afterBattleByBoss(p) == IF ~isAlive(boss) THEN "drop" ELSE "lost"

\* lines 1278-1290: the test after the round loop
afterBattle(p) == IF ~isAlive(p) THEN "lost" ELSE "drop"

Init ==
    /\ player \in {createPlayer(choice) : choice \in 1..3}
    /\ boss = NoUnit
    /\ stage = 1
    /\ playerFirst = FALSE
    /\ pc = "start"
    /\ round = 0
    /\ focus \in 1..MaxFocus
    /\ call = NoCall

\* a stage start that restores the player and clears its status table
StartStageRested ==
    /\ pc = "start"
    /\ \E choice \in 1..2, coinResult \in BOOLEAN :
        /\ stage >= FocusStage \/ (choice = Script.choice /\ coinResult = Script.coinResult)
        /\ call' = Call("coinFlip", "player", choice, coinResult, 0, 0)
    /\ boss' = BossUnit(10 + stage * 5, 70 + stage * 20, stage - 1)
    /\ player' = [player EXCEPT !.health = player.maxHealth, !.mana = player.maxMana,
                                !.statusEffects = NoStatus]
    /\ round' = 0
    /\ pc' = "flip"
    /\ UNCHANGED <<stage, playerFirst, focus>>

\* boss creation, and coinFlip up to its two inputs: the choice read and
\* the coin drawn
StartStage ==
    /\ pc = "start"
    /\ \E choice \in 1..2, coinResult \in BOOLEAN :
        /\ stage >= FocusStage \/ (choice = Script.choice /\ coinResult = Script.coinResult)
        /\ call' = Call("coinFlip", "player", choice, coinResult, 0, 0)
    /\ boss' = BossUnit(10 + stage * 5, 70 + stage * 20, stage - 1)
    /\ round' = 0
    /\ pc' = "flip"
    /\ UNCHANGED <<player, stage, playerFirst, focus>>

\* the rest of coinFlip and the assignment of its result
CoinFlip ==
    /\ pc = "flip"
    /\ playerFirst' = coinFlip(call.arg, call.ret)
    /\ call' = NoCall
    /\ pc' = "loop"
    /\ UNCHANGED <<player, boss, stage, round, focus>>

\* the round loop with a test of the player only
LoopGuardPlayerOnly ==
    /\ pc = "loop"
    /\ IF isAlive(player)
       THEN /\ Explored
            /\ FreeBattle => round < MaxRounds
            /\ player' = clearBattleLog(player)
            /\ boss' = clearBattleLog(boss)
            /\ round' = round + 1
            /\ pc' = IF playerFirst THEN "pTurn" ELSE "bTurn"
       ELSE /\ pc' = afterBattle(player)
            /\ UNCHANGED <<player, boss, round>>
    /\ UNCHANGED <<stage, playerFirst, focus, call>>

\* the test of the round loop and the head of its body
LoopGuard ==
    /\ pc = "loop"
    /\ IF isAlive(player) /\ isAlive(boss)
       THEN /\ Explored
            /\ FreeBattle => round < MaxRounds
            /\ player' = clearBattleLog(player)
            /\ boss' = clearBattleLog(boss)
            /\ round' = round + 1
            /\ pc' = IF playerFirst THEN "pTurn" ELSE "bTurn"
       ELSE /\ pc' = afterBattle(player)
            /\ UNCHANGED <<player, boss, round>>
    /\ UNCHANGED <<stage, playerFirst, focus, call>>

PlayerStunned ==
    /\ pc = "pTurn"
    /\ hasStatus(player, "STUN")
    /\ player' = clearStatus(addToBattleLog(player, Entry("stunned", 0, 0, 0, "")), "STUN")
    /\ pc' = "pTick"
    /\ UNCHANGED <<boss, stage, playerFirst, round, focus, call>>

PlayerAttack ==
    /\ pc = "pTurn"
    /\ ~hasStatus(player, "STUN")
    /\ FreeBattle
    /\ LET r == attack(player, boss)
       IN  player' = r.self /\ boss' = r.target
    /\ pc' = "pTick"
    /\ UNCHANGED <<stage, playerFirst, round, focus, call>>

PlayerSkills ==
    /\ pc = "pTurn"
    /\ ~hasStatus(player, "STUN")
    /\ \E skillChoice \in 1..3 :
        /\ FreeBattle \/ skillChoice = Script.skillChoice
        /\ LET r == showSkillsMenu(player, boss, skillChoice)
           IN  player' = r.self /\ boss' = r.target
    /\ pc' = "pTick"
    /\ UNCHANGED <<stage, playerFirst, round, focus, call>>

\* case 3 with the continue taken before the tick
PlayerInventoryNoTick ==
    /\ pc = "pTurn"
    /\ ~hasStatus(player, "STUN")
    /\ FreeBattle
    /\ \E choice \in 0..Len(player.potions) :
        LET r == showInventory(player, choice)
        IN  IF r.ok
            THEN player' = r.unit /\ pc' = "loop"
            ELSE player' = r.unit /\ pc' = "pTick"
    /\ UNCHANGED <<boss, stage, playerFirst, round, focus, call>>

\* case 3 taking the tick and the continue whatever showInventory returns
PlayerInventoryAlwaysContinues ==
    /\ pc = "pTurn"
    /\ ~hasStatus(player, "STUN")
    /\ FreeBattle
    /\ \E choice \in 0..Len(player.potions) :
        LET r == showInventory(player, choice)
        IN  player' = processStatusEffects(r.unit) /\ pc' = "loop"
    /\ UNCHANGED <<boss, stage, playerFirst, round, focus, call>>

\* case 3: with a potion used, the tick and the continue
PlayerInventory ==
    /\ pc = "pTurn"
    /\ ~hasStatus(player, "STUN")
    /\ FreeBattle
    /\ \E choice \in 0..Len(player.potions) :
        LET r == showInventory(player, choice)
        IN  IF r.ok
            THEN player' = processStatusEffects(r.unit) /\ pc' = "loop"
            ELSE player' = r.unit /\ pc' = "pTick"
    /\ UNCHANGED <<boss, stage, playerFirst, round, focus, call>>

PlayerPass ==
    /\ pc = "pTurn"
    /\ ~hasStatus(player, "STUN")
    /\ FreeBattle
    /\ player' = addToBattleLog(player, Entry("pass", 0, 0, 0, ""))
    /\ pc' = "pTick"
    /\ UNCHANGED <<boss, stage, playerFirst, round, focus, call>>

\* the player's tick without the test of the boss that follows it
PlayerTickNoBreak ==
    /\ pc = "pTick"
    /\ player' = processStatusEffects(player)
    /\ pc' = IF playerFirst THEN "bTurn" ELSE "loop"
    /\ UNCHANGED <<boss, stage, playerFirst, round, focus, call>>

\* the player's tick with the boss's status table ticked as well
PlayerTickBothUnits ==
    /\ pc = "pTick"
    /\ player' = processStatusEffects(player)
    /\ boss' = processStatusEffects(boss)
    /\ pc' = IF playerFirst
             THEN (IF ~isAlive(boss') THEN afterBattle(player') ELSE "bTurn")
             ELSE "loop"
    /\ UNCHANGED <<stage, playerFirst, round, focus, call>>

\* the player's processStatusEffects after the switch, and what follows it
PlayerTick ==
    /\ pc = "pTick"
    /\ player' = processStatusEffects(player)
    /\ pc' = IF playerFirst
             THEN (IF ~isAlive(boss) THEN afterBattle(player') ELSE "bTurn")
             ELSE "loop"
    /\ UNCHANGED <<boss, stage, playerFirst, round, focus, call>>

BossStunned ==
    /\ pc = "bTurn"
    /\ hasStatus(boss, "STUN")
    /\ player' = addToBattleLog(player, Entry("bossStunned", 0, 0, 0, ""))
    /\ boss' = clearStatus(boss, "STUN")
    /\ pc' = "bTick"
    /\ UNCHANGED <<stage, playerFirst, round, focus, call>>

BossAction ==
    /\ pc = "bTurn"
    /\ ~hasStatus(boss, "STUN")
    /\ \E bossAction \in 0..3 :
        /\ FreeBattle \/ bossAction = Script.bossAction
        /\ LET r == bossDispatch(boss,
                        addToBattleLog(player, Entry("bossAction", bossAction, 0, 0, "")),
                        bossAction)
           IN  boss' = r.self /\ player' = r.target
    /\ pc' = "bTick"
    /\ UNCHANGED <<stage, playerFirst, round, focus, call>>

\* the boss's processStatusEffects and what follows it
BossTick ==
    /\ pc = "bTick"
    /\ IF playerFirst
       THEN /\ boss' = processStatusEffects(boss)
            /\ pc' = "loop"
            /\ UNCHANGED player
       ELSE /\ boss' = clearBattleLog(processStatusEffects(boss))
            /\ player' = clearBattleLog(player)
            /\ pc' = IF ~isAlive(player) THEN "lost" ELSE "pTurn"
    /\ UNCHANGED <<stage, playerFirst, round, focus, call>>

\* generateRandomPotions, addItem of each potion, delete boss
DropPotions ==
    /\ pc = "drop"
    /\ \E drops \in PotionDrops :
        /\ FreeReward \/ drops = Script.drops
        /\ player' = addPotions(player, drops)
    /\ boss' = NoUnit
    /\ IF stage < NumStages
       THEN pc' = "upgrade" /\ UNCHANGED <<stage, playerFirst, round>>
       ELSE pc' = "won" /\ stage' = stage + 1 /\ playerFirst' = FALSE /\ round' = 0
    /\ UNCHANGED <<focus, call>>

ChooseUpgrade ==
    /\ pc = "upgrade"
    /\ \E upgrade \in 1..4 :
        /\ FreeReward \/ upgrade = Script.upgrade
        /\ player' = CASE upgrade = 1 -> heal(player, 30)
                       [] upgrade = 2 -> restoreMana(player, 20)
                       [] upgrade = 3 -> increaseAttack(player, 5)
                       [] OTHER -> increaseDefense(player, 3)
    /\ pc' = "item"
    /\ UNCHANGED <<boss, stage, playerFirst, round, focus, call>>

\* generateRandomItems: the offer of three items, kept in call.arg
GenerateItems ==
    /\ pc = "item"
    /\ \E offer \in Offers :
        /\ FreeReward \/ offer = Script.offer
        /\ call' = Call("offer", "player", offer, TRUE, 0, 0)
    /\ pc' = "pick"
    /\ UNCHANGED <<player, boss, stage, playerFirst, round, focus>>

\* the choice with the loop variable advanced by two
ChooseItemSkipsStage ==
    /\ pc = "pick"
    /\ \E itemChoice \in 1..3 :
        /\ FreeReward \/ itemChoice = Script.itemChoice
        /\ player' = addItem(player, allItems[call.arg[itemChoice]])
    /\ call' = NoCall
    /\ stage' = stage + 2
    /\ playerFirst' = FALSE
    /\ round' = 0
    /\ pc' = "start"
    /\ UNCHANGED <<boss, focus>>

\* the choice among the offer, addItem, and the end of the stage
ChooseItem ==
    /\ pc = "pick"
    /\ \E itemChoice \in 1..3 :
        /\ FreeReward \/ itemChoice = Script.itemChoice
        /\ player' = addItem(player, allItems[call.arg[itemChoice]])
    /\ call' = NoCall
    /\ stage' = stage + 1
    /\ playerFirst' = FALSE
    /\ round' = 0
    /\ pc' = "start"
    /\ UNCHANGED <<boss, focus>>

Next ==
    \/ StartStage
    \/ CoinFlip
    \/ LoopGuard
    \/ PlayerStunned
    \/ PlayerAttack
    \/ PlayerSkills
    \/ PlayerInventory
    \/ PlayerPass
    \/ PlayerTick
    \/ BossStunned
    \/ BossAction
    \/ BossTick
    \/ DropPotions
    \/ ChooseUpgrade
    \/ GenerateItems
    \/ ChooseItem

Spec == Init /\ [][Next]_vars

(***************************************************************************)
(* The battle of stage 1 with no limit on the number of rounds, for the    *)
(* question whether the round loop is always left, with the two classes    *)
(* that can stun the boss, heal themselves or poison it.  The boss's draw  *)
(* of the basic attack (rand() % 4 = 3) is a step of its own here so that  *)
(* it can be required to come up again and again.                          *)
(***************************************************************************)
InitLive == Init /\ focus = 1 /\ player.cls \in {"Mage", "Archer"}

\* the test of the round loop and the head of its body, rounds not counted
LoopGuardLive ==
    /\ pc = "loop"
    /\ IF isAlive(player) /\ isAlive(boss)
       THEN /\ Explored
            /\ player' = clearBattleLog(player)
            /\ boss' = clearBattleLog(boss)
            /\ round' = 1
            /\ pc' = IF playerFirst THEN "pTurn" ELSE "bTurn"
       ELSE /\ pc' = afterBattle(player)
            /\ UNCHANGED <<player, boss, round>>
    /\ UNCHANGED <<stage, playerFirst, focus, call>>

\* the boss's action when rand() % 4 gives 3
BossBasicAttack ==
    /\ pc = "bTurn"
    /\ ~hasStatus(boss, "STUN")
    /\ LET r == bossDispatch(boss,
                    addToBattleLog(player, Entry("bossAction", 3, 0, 0, "")), 3)
       IN  boss' = r.self /\ player' = r.target
    /\ pc' = "bTick"
    /\ UNCHANGED <<stage, playerFirst, round, focus, call>>

NextLive ==
    \/ StartStage
    \/ CoinFlip
    \/ LoopGuardLive
    \/ PlayerStunned
    \/ PlayerAttack
    \/ PlayerSkills
    \/ PlayerInventory
    \/ PlayerPass
    \/ PlayerTick
    \/ BossStunned
    \/ BossAction
    \/ BossTick
    \/ DropPotions
    \/ ChooseUpgrade
    \/ GenerateItems
    \/ ChooseItem

LiveSpec ==
    /\ InitLive
    /\ [][NextLive]_vars
    /\ WF_vars(NextLive)
    /\ SF_vars(BossBasicAttack)

(***************************************************************************)
(* Unit-level harness: direct calls of Unit's public operations on one     *)
(* freshly created unit, the subject (call.who), with a freshly created    *)
(* opponent as the target of its skills.  Each call follows a              *)
(* clearBattleLog of both units.                                           *)
(***************************************************************************)
DamageInputs == {0, 12, 67, 200}

unitOf(who) == IF who = "player" THEN player ELSE boss

\* consecutive identical calls, counted up to 2
streakOf(op, arg) ==
    IF call.op = op /\ call.arg = arg THEN Min(2, call.streak + 1) ELSE 1

InitUnit ==
    /\ player \in {createPlayer(choice) : choice \in 1..3}
    /\ stage \in 1..NumStages
    /\ boss = BossUnit(10 + stage * 5, 70 + stage * 20, stage - 1)
    /\ playerFirst = FALSE
    /\ pc = "unit"
    /\ round = 0
    /\ focus = 1
    /\ \E who \in {"player", "boss"} : call = Call("none", who, 0, FALSE, 0, 0)

CallTakeDamage ==
    /\ pc = "unit"
    /\ call.count < MaxCalls
    /\ \E dmg \in DamageInputs :
        /\ call' = Call("takeDamage", call.who, dmg, TRUE, call.count + 1,
                        streakOf("takeDamage", dmg))
        /\ IF call.who = "player"
           THEN player' = takeDamage(clearBattleLog(player), dmg, "")
                /\ boss' = clearBattleLog(boss)
           ELSE boss' = takeDamage(clearBattleLog(boss), dmg, "")
                /\ player' = clearBattleLog(player)
    /\ UNCHANGED <<stage, playerFirst, pc, round, focus>>

CallSkill ==
    /\ pc = "unit"
    /\ \E n \in 1..3 :
        LET self == clearBattleLog(unitOf(call.who))
            target == clearBattleLog(IF call.who = "player" THEN boss ELSE player)
            r == useSkill(self, target, n)
        IN  /\ call' = Call("skill", call.who, n, r.ok, call.count, streakOf("skill", n))
            /\ IF call.who = "player"
               THEN player' = r.self /\ boss' = r.target
               ELSE boss' = r.self /\ player' = r.target
    /\ UNCHANGED <<stage, playerFirst, pc, round, focus>>

NextUnit ==
    \/ CallTakeDamage
    \/ CallSkill

UnitSpec == InitUnit /\ [][NextUnit]_vars

(***************************************************************************)
(* The same harness with the calls that concern the status table.          *)
(***************************************************************************)
\* consecutive processStatusEffects calls, counted up to MaxDuration + 1
tickStreak == IF call.op = "tick" THEN Min(MaxDuration + 1, call.streak + 1) ELSE 1

\* the step of the harness: the subject becomes u, the other unit's log is
\* cleared
subjectBecomes(u) ==
    IF call.who = "player"
    THEN player' = u /\ boss' = clearBattleLog(boss)
    ELSE boss' = u /\ player' = clearBattleLog(player)

CallAddStatus ==
    /\ pc = "unit"
    /\ call.count < MaxCalls
    /\ \E i \in DOMAIN StatusOrder, duration \in 1..MaxDuration :
        /\ call' = Call("addStatus", call.who, <<StatusOrder[i], duration>>, TRUE,
                        call.count + 1,
                        IF call.op = "addStatus" /\ call.arg[1] = StatusOrder[i]
                        THEN 2 ELSE 1)
        /\ subjectBecomes(addStatus(clearBattleLog(unitOf(call.who)),
                                    StatusOrder[i], duration))
    /\ UNCHANGED <<stage, playerFirst, pc, round, focus>>

CallProcessStatusEffects ==
    /\ pc = "unit"
    /\ call' = Call("tick", call.who, 0, TRUE, call.count, tickStreak)
    /\ subjectBecomes(processStatusEffects(clearBattleLog(unitOf(call.who))))
    /\ UNCHANGED <<stage, playerFirst, pc, round, focus>>

CallIncreaseAttack ==
    /\ pc = "unit"
    /\ call.count < MaxCalls
    /\ call' = Call("increaseAttack", call.who, 5, TRUE, call.count + 1, 1)
    /\ subjectBecomes(increaseAttack(clearBattleLog(unitOf(call.who)), 5))
    /\ UNCHANGED <<stage, playerFirst, pc, round, focus>>

NextStatus ==
    \/ CallTakeDamage
    \/ CallAddStatus
    \/ CallProcessStatusEffects
    \/ CallIncreaseAttack

StatusSpec == InitUnit /\ [][NextStatus]_vars

(***************************************************************************)
(* The same harness with the calls that restore health and mana and that   *)
(* handle potions.                                                         *)
(***************************************************************************)
RestoreInputs == {0, 30, 200}

\* the subject is a freshly created unit, or one that has used one of its
\* skills on an opponent (n = 0: none), so that its mana is below maxMana
InitPotion ==
    /\ stage = 1
    /\ \E choice \in 1..3, who \in {"player", "boss"}, n \in 0..3 :
        LET p == createPlayer(choice)
            b == BossUnit(10 + stage * 5, 70 + stage * 20, stage - 1)
        IN  /\ call = Call("none", who, n, FALSE, 0, 0)
            /\ player = IF who = "player" /\ n > 0
                        THEN clearBattleLog(useSkill(p, b, n).self) ELSE p
            /\ boss = IF who = "boss" /\ n > 0
                      THEN clearBattleLog(useSkill(b, p, n).self) ELSE b
    /\ playerFirst = FALSE
    /\ pc = "unit"
    /\ round = 0
    /\ focus = 1

CallHeal ==
    /\ pc = "unit"
    /\ \E amount \in RestoreInputs :
        /\ call' = Call("heal", call.who, amount, TRUE, call.count, 1)
        /\ subjectBecomes(heal(clearBattleLog(unitOf(call.who)), amount))
    /\ UNCHANGED <<stage, playerFirst, pc, round, focus>>

CallRestoreMana ==
    /\ pc = "unit"
    /\ \E amount \in RestoreInputs :
        /\ call' = Call("restoreMana", call.who, amount, TRUE, call.count, 1)
        /\ subjectBecomes(restoreMana(clearBattleLog(unitOf(call.who)), amount))
    /\ UNCHANGED <<stage, playerFirst, pc, round, focus>>

\* addItem of a HealthPotion or a ManaPotion
CallAddPotion ==
    /\ pc = "unit"
    /\ Len(unitOf(call.who).potions) < MaxPotions
    /\ \E health \in BOOLEAN :
        /\ call' = Call("addItem", call.who, health, TRUE, call.count, 1)
        /\ subjectBecomes(addPotion(clearBattleLog(unitOf(call.who)), health))
    /\ UNCHANGED <<stage, playerFirst, pc, round, focus>>

CallUsePotion ==
    /\ pc = "unit"
    /\ \E index \in (-1)..Len(unitOf(call.who).potions) :
        LET r == usePotion(clearBattleLog(unitOf(call.who)), index)
        IN  /\ call' = Call("usePotion", call.who, index, r.ok, call.count, 1)
            /\ subjectBecomes(r.unit)
    /\ UNCHANGED <<stage, playerFirst, pc, round, focus>>

NextPotion ==
    \/ CallTakeDamage
    \/ CallHeal
    \/ CallRestoreMana
    \/ CallAddPotion
    \/ CallUsePotion

PotionSpec == InitPotion /\ [][NextPotion]_vars

(***************************************************************************)
(* Properties.                                                             *)
(***************************************************************************)
Units == {player, boss}

\* a unit without its narration
stats(u) == [u EXCEPT !.battleLog = <<>>]

hasEntry(u, P(_)) == \E i \in DOMAIN u.battleLog : P(u.battleLog[i])

BattlePcs == {"loop", "pTurn", "pTick", "bTurn", "bTick"}

\* C1: in every state every unit has 0 <= health <= maxHealth and
\* 0 <= mana <= maxMana.
StatsInRange ==
    \A u \in Units :
        /\ 0 <= u.health /\ u.health <= u.maxHealth
        /\ 0 <= u.mana /\ u.mana <= u.maxMana

overkill(e) == e.kind = "damage" /\ e.a > e.b /\ e.c = 0

\* a blow larger than the health left has landed and health stands at 0
StatsInRangeWitness ==
    \E u \in Units : u.health = 0 /\ hasEntry(u, overkill)

onDead(e) == e.kind = "damage" /\ e.b = 0

\* C2: no takeDamage call is made on a unit whose health is already 0
\* (every damage entry of a battle log records a previous health above 0).
NoDamageOnDead ==
    \A u \in Units : ~hasEntry(u, onDead)

\* C3: no unit with health 0 is at the start of an action slot.
DeadNeverActs ==
    /\ pc = "pTurn" => player.health > 0
    /\ pc = "bTurn" => boss.health > 0

killedByTick(e) == e.kind = "damage" /\ e.src \in {"Poison", "Bleed"} /\ e.b > 0 /\ e.c = 0

\* a unit died from its own POISON/BLEED tick and the battle is over
DeadNeverActsWitness ==
    /\ pc \in {"lost", "drop"}
    /\ \E u \in Units : u.health = 0 /\ hasEntry(u, killedByTick)

\* C4: every failed skill (an insufficient-MP entry in the caster's log) is
\* followed at once by the caster's basic attack, for the player and for
\* the boss.
SkillFailureFallsBack ==
    \A u \in Units :
        \A i \in DOMAIN u.battleLog :
            u.battleLog[i].kind = "nomp" =>
                i < Len(u.battleLog) /\ u.battleLog[i + 1].kind = "attack"

usedPotion(e) == e.kind = "potion"

\* C5: a potion use takes one potion, ticks the player's status effects,
\* leaves the boss alone, and the next action slot taken is the boss's.
PotionCostsTheSlot ==
    [][ /\ (pc = "pTurn" /\ pc' = "loop") =>
            /\ Len(player'.potions) = Len(player.potions) - 1
            /\ boss' = boss
            /\ \A e \in DOMAIN player.statusEffects :
                IF player.statusEffects[e] > 1
                THEN /\ e \in DOMAIN player'.statusEffects
                     /\ player'.statusEffects[e] = player.statusEffects[e] - 1
                ELSE e \notin DOMAIN player'.statusEffects
        /\ (pc = "loop" /\ hasEntry(player, usedPotion) /\ pc' \in {"pTurn", "bTurn"}) =>
            pc' = "bTurn"
      ]_vars

\* C6 as claimed: when the second side is dead after the first side's slot
\* and tick, the second side does not act and the first side wins (the
\* victory branch for the player, the defeat branch for the boss).
FirstSideWins ==
    [][ /\ (pc = "pTick" /\ playerFirst /\ boss.health = 0) => pc' = "drop"
        /\ (pc = "bTick" /\ ~playerFirst /\ player.health = 0) => pc' = "lost"
      ]_vars

\* C6 as amended: as above, but with the player first the battle is won
\* only if the player's own tick left the player alive; if it brought the
\* player to 0 as well, the battle is lost.
FirstSideWinsIfAlive ==
    [][ /\ (pc = "pTick" /\ playerFirst /\ boss.health = 0) =>
            pc' = IF player'.health > 0 THEN "drop" ELSE "lost"
        /\ (pc = "bTick" /\ ~playerFirst /\ player.health = 0) => pc' = "lost"
      ]_vars

\* the player killed the boss and then died from the tick of the same slot
FirstSideWinsWitness ==
    /\ pc = "lost" /\ playerFirst
    /\ boss.health = 0 /\ player.health = 0
    /\ player.battleLog # <<>>
    /\ killedByTick(player.battleLog[Len(player.battleLog)])

\* C7: the turn order is computed once per stage, from the chosen side and
\* the coin, before the first round; it does not change during the battle
\* and the side it names takes the first slot of every round.
TurnOrderOncePerBattle ==
    [][ /\ pc = "flip" =>
            playerFirst' = ((call.arg = 1 /\ call.ret) \/ (call.arg = 2 /\ ~call.ret))
        /\ (pc' = "flip") => pc = "start"
        /\ (pc = "start") => pc' = "flip"
        /\ (pc \in BattlePcs /\ pc' \in BattlePcs) => playerFirst' = playerFirst
        /\ (pc = "loop" /\ pc' \in {"pTurn", "bTurn"}) => ((pc' = "pTurn") <=> playerFirst)
      ]_vars

\* the boss opens a later round of stage 2 after the player opened stage 1
TurnOrderWitness ==
    stage = 2 /\ round >= 2 /\ pc = "bTurn" /\ ~playerFirst /\ boss.battleLog = <<>>

primedUnitOf(who) == IF who = "player" THEN player' ELSE boss'

\* C8: takeDamage(d) sets health to max(0, health - max(1, d - defense)),
\* changes no other stat, and lowers the health of a living unit.
TakeDamageContract ==
    [][ (pc = "unit" /\ call'.op = "takeDamage" /\ call'.count = call.count + 1) =>
            LET u == unitOf(call.who)
                v == primedUnitOf(call.who)
            IN  /\ v.health = Max(0, u.health - Max(1, call'.arg - u.defense))
                /\ stats([v EXCEPT !.health = u.health]) = stats(u)
                /\ u.health > 0 => v.health < u.health
      ]_vars

\* the Warrior (DEF 2) took raw 12 at full health and stands at 110
TakeDamageWitness ==
    /\ pc = "unit" /\ call.op = "takeDamage" /\ call.who = "player" /\ call.arg = 12
    /\ player.cls = "Warrior" /\ player.health = 110

\* the costs of the skill table
SkillCostTable ==
    [Warrior |-> <<15, 10, 20>>, Archer |-> <<10, 15, 20>>,
     Mage |-> <<20, 15, 25>>, Boss |-> <<15, 20, 25>>]

\* C9: useSkillN with mana < cost returns failure and changes no stat of
\* the caster or of the target, the first time and every time after.
FailedSkillChangesNothing ==
    [][ (pc = "unit" /\ call'.op = "skill"
            /\ unitOf(call.who).mana < SkillCostTable[unitOf(call.who).cls][call'.arg]) =>
            /\ ~call'.ret
            /\ stats(player') = stats(player)
            /\ stats(boss') = stats(boss)
      ]_vars

\* the same skill has just failed twice in a row
FailedSkillWitness ==
    pc = "unit" /\ call.op = "skill" /\ ~call.ret /\ call.streak = 2

without(f, effect) == [e \in (DOMAIN f) \ {effect} |-> f[e]]

\* C10: a slot that begins under STUN does nothing but remove the STUN
\* entry: no stat of either unit changes, and the entry is gone.
StunSkipsOnce ==
    [][ /\ (pc = "pTurn" /\ hasStatus(player, "STUN")) =>
            /\ pc' = "pTick"
            /\ stats(boss') = stats(boss)
            /\ stats(player') =
                 stats([player EXCEPT !.statusEffects = without(@, "STUN")])
        /\ (pc = "bTurn" /\ hasStatus(boss, "STUN")) =>
            /\ pc' = "bTick"
            /\ stats(player') = stats(player)
            /\ stats(boss') = stats([boss EXCEPT !.statusEffects = without(@, "STUN")])
      ]_vars

stunnedEntry(e) == e.kind = "stunned"

\* the player's slot has just been skipped and the tick is next
StunSkipsWitness ==
    /\ pc = "pTick"
    /\ hasEntry(player, stunnedEntry)
    /\ "STUN" \notin DOMAIN player.statusEffects

\* the value currentAttack is documented to have under the unit's effects
\* (left open when both STRENGTH_UP and WEAKNESS are active)
adjustedAttack(u) ==
    CASE hasStatus(u, "STRENGTH_UP") /\ ~hasStatus(u, "WEAKNESS") -> u.baseAttack + 10
      [] hasStatus(u, "WEAKNESS") /\ ~hasStatus(u, "STRENGTH_UP") ->
            IF u.baseAttack - 5 >= 1 THEN u.baseAttack - 5 ELSE 1
      [] ~hasStatus(u, "WEAKNESS") /\ ~hasStatus(u, "STRENGTH_UP") -> u.baseAttack
      [] OTHER -> u.currentAttack

\* the step added a damage entry to the log of the unit
hits(before, after) ==
    \E i \in DOMAIN after.battleLog :
        i > Len(before.battleLog) /\ after.battleLog[i].kind = "damage"

\* C11: whenever a unit deals damage in its action slot (basic attack or
\* damage skill), its currentAttack is baseAttack + 10 under STRENGTH_UP,
\* max(1, baseAttack - 5) under WEAKNESS, and baseAttack under neither.
AttackUsesAdjusted ==
    [][ /\ (pc = "pTurn" /\ hits(boss, boss')) =>
            player.currentAttack = adjustedAttack(player)
        /\ (pc = "bTurn" /\ hits(player, player')) =>
            boss.currentAttack = adjustedAttack(boss)
      ]_vars

tableOf(u) == DOMAIN u.statusEffects

woreOff(effect, u) ==
    \E i \in DOMAIN u.battleLog :
        u.battleLog[i].kind = "woreOff" /\ u.battleLog[i].src = effect

\* C12: whenever neither STRENGTH_UP nor WEAKNESS is in a unit's status
\* table, its currentAttack equals its baseAttack (in particular after both
\* were applied, in either order, and ticked out).
NoAttackEffectMeansBase ==
    \A u \in Units :
        (tableOf(u) \cap {"STRENGTH_UP", "WEAKNESS"} = {}) => u.currentAttack = u.baseAttack

\* both effects had been applied and the last tick removed the last of them
NoAttackEffectWitness ==
    /\ pc = "unit" /\ call.op = "tick" /\ call.count = 2
    /\ LET u == unitOf(call.who)
       IN  /\ woreOff("STRENGTH_UP", u) /\ woreOff("WEAKNESS", u)
           /\ tableOf(u) = {}
           /\ u.currentAttack = u.baseAttack

\* the damage one tick takes for an effect of the given fixed amount
dotDamage(u, effect, amount) ==
    IF effect \in tableOf(u)
    THEN (IF amount - u.defense >= 1 THEN amount - u.defense ELSE 1)
    ELSE 0

dotEntries(u, source) ==
    Cardinality({i \in DOMAIN u.battleLog :
                    u.battleLog[i].kind = "damage" /\ u.battleLog[i].src = source})

\* C13: every status tick lowers the owner's health by max(1, 5 - defense)
\* if POISON is in the table and by max(1, 3 - defense) if BLEED is,
\* floored at 0, once each; it lowers the remaining duration of each by one
\* and removes the effect when that reaches 0; an effect not in the table
\* deals nothing and does not come back.
DotTicksDownAndOut ==
    [][ (pc = "unit" /\ call'.op = "tick") =>
            LET u == unitOf(call.who)
                v == primedUnitOf(call.who)
                lost == dotDamage(u, "POISON", 5) + dotDamage(u, "BLEED", 3)
            IN  /\ v.health = (IF u.health - lost >= 0 THEN u.health - lost ELSE 0)
                /\ dotEntries(v, "Poison") = (IF "POISON" \in tableOf(u) THEN 1 ELSE 0)
                /\ dotEntries(v, "Bleed") = (IF "BLEED" \in tableOf(u) THEN 1 ELSE 0)
                /\ \A e \in {"POISON", "BLEED"} :
                    IF e \in tableOf(u) /\ u.statusEffects[e] > 1
                    THEN e \in tableOf(v) /\ v.statusEffects[e] = u.statusEffects[e] - 1
                    ELSE e \notin tableOf(v)
      ]_vars

\* POISON(3) was applied once to the Mage, three ticks took 5 each and the
\* third removed it
DotTicksWitness ==
    /\ pc = "unit" /\ call.op = "tick" /\ call.who = "player" /\ call.count = 1
    /\ call.streak = 3
    /\ player.cls = "Mage" /\ player.health = 55
    /\ woreOff("POISON", player) /\ tableOf(player) = {}

\* C14: the campaign starts at stage 1 and the stage number only goes up by
\* one, at the end of the rewards of a won battle; a battle starts only
\* from the start of a stage 1..5; a battle is left for the rewards only
\* with the boss at 0 and the player alive, and for the loss whenever the
\* player is at 0; nothing follows a loss; the win follows the potion drop
\* of stage 5 and nothing else.
CampaignOrder ==
    /\ stage = 1 /\ pc = "start"
    /\ [][ /\ stage' \in {stage, stage + 1}
           /\ (stage' # stage) =>
                \/ pc = "pick" /\ pc' = "start"
                \/ pc = "drop" /\ stage = 5 /\ pc' = "won"
           /\ (pc' = "start") => pc = "pick"
           /\ (pc' = "flip") => (pc = "start" /\ stage \in 1..5)
           /\ (pc \in BattlePcs /\ pc' \notin BattlePcs) =>
                /\ pc' = (IF player'.health = 0 THEN "lost" ELSE "drop")
                /\ pc' = "drop" => (boss'.health = 0 /\ player'.health > 0)
           /\ (pc' \in {"lost", "drop"}) => pc \in BattlePcs
           /\ (pc = "drop") => pc' = (IF stage < 5 THEN "upgrade" ELSE "won")
           /\ (pc' = "upgrade") => pc = "drop"
           /\ (pc = "upgrade") => pc' = "item"
           /\ (pc = "item") => pc' = "pick"
           /\ (pc' = "won") => (pc = "drop" /\ stage = 5)
           /\ (pc \in {"lost", "won"}) => FALSE
         ]_vars

\* the campaign is won: five stages done, four items chosen, player alive
CampaignWonWitness ==
    pc = "won" /\ stage = 6 /\ player.health > 0 /\ Len(player.equipment) = 4

\* a unit without its narration and its cached attack value
core(u) == [stats(u) EXCEPT !.currentAttack = 0]

Catalog ==
    {"Fire Sword", "Ice Shield", "Vampire Ring", "Poison Dagger", "Dragon Scale",
     "Lightning Orb"}

\* the four results of the upgrade menu
upgraded(u) ==
    { [core(u) EXCEPT !.health = IF u.health + 30 <= u.maxHealth THEN u.health + 30
                                 ELSE u.maxHealth],
      [core(u) EXCEPT !.mana = IF u.mana + 20 <= u.maxMana THEN u.mana + 20
                               ELSE u.maxMana],
      [core(u) EXCEPT !.baseAttack = @ + 5],
      [core(u) EXCEPT !.defense = @ + 3] }

\* C15: the potion drop after a victory adds 1 to 3 potions, each the
\* health potion (30) or the mana potion (20), and nothing else; after
\* stages 1 to 4 follow exactly one of the four upgrades, an offer of three
\* pairwise distinct catalog items, and the addition of exactly one item of
\* that offer; after stage 5 the drop is followed by the win and nothing
\* more; no potion or equipment is gained anywhere else.
RewardsGranted ==
    [][ /\ (pc = "drop") =>
            /\ \E n \in 1..3 :
                /\ Len(player'.potions) = Len(player.potions) + n
                /\ SubSeq(player'.potions, 1, Len(player.potions)) = player.potions
                /\ \A i \in (Len(player.potions) + 1)..(Len(player.potions) + n) :
                    player'.potions[i] \in {[amount |-> 30, isHealth |-> TRUE],
                                            [amount |-> 20, isHealth |-> FALSE]}
            /\ [player' EXCEPT !.potions = player.potions] = player
            /\ pc' = (IF stage <= 4 THEN "upgrade" ELSE "won")
        /\ (pc = "upgrade") => (core(player') \in upgraded(player) /\ pc' = "item")
        /\ (pc = "item") =>
            /\ player' = player /\ pc' = "pick"
            /\ call'.arg \in [1..3 -> 1..6]
            /\ Cardinality({call'.arg[i] : i \in 1..3}) = 3
        /\ (pc = "pick") =>
            /\ \E i \in 1..3 :
                player'.equipment = Append(player.equipment, allItems[call.arg[i]].name)
            /\ player'.equipment[Len(player'.equipment)] \in Catalog
            /\ player'.potions = player.potions
        /\ (pc # "pick") => player'.equipment = player.equipment
        /\ (pc # "drop") => Len(player'.potions) <= Len(player.potions)
        /\ (pc = "won") => FALSE
      ]_vars

\* stage 1 is done: three potions dropped, the defense upgrade was taken
\* and the Lightning Orb chosen
RewardsWitness ==
    /\ pc = "start" /\ stage = 2
    /\ player.cls = "Mage" /\ player.defense = 3
    /\ Len(player.potions) = 3
    /\ player.equipment = <<"Lightning Orb">>

lesser(a, b) == IF a <= b THEN a ELSE b

restored(kind, delta, u) ==
    \E i \in DOMAIN u.battleLog : u.battleLog[i].kind = kind /\ u.battleLog[i].a = delta

\* C16: heal(amount) sets health to min(maxHealth, health + amount) and
\* reports min(amount, maxHealth - health); restoreMana does the same for
\* mana; neither changes anything else; a potion used at full health or
\* full mana restores 0.
RestoreContract ==
    [][ LET u == unitOf(call.who)
            v == primedUnitOf(call.who)
        IN  /\ (pc = "unit" /\ call'.op = "heal") =>
                /\ v.health = lesser(u.maxHealth, u.health + call'.arg)
                /\ restored("heal", lesser(call'.arg, u.maxHealth - u.health), v)
                /\ stats([v EXCEPT !.health = u.health]) = stats(u)
            /\ (pc = "unit" /\ call'.op = "restoreMana") =>
                /\ v.mana = lesser(u.maxMana, u.mana + call'.arg)
                /\ restored("mana", lesser(call'.arg, u.maxMana - u.mana), v)
                /\ stats([v EXCEPT !.mana = u.mana]) = stats(u)
            /\ (pc = "unit" /\ call'.op = "usePotion" /\ call'.ret) =>
                LET potion == u.potions[call'.arg + 1]
                IN  /\ (potion.isHealth /\ u.health = u.maxHealth) =>
                        (v.health = u.health /\ restored("heal", 0, v))
                    /\ (~potion.isHealth /\ u.mana = u.maxMana) =>
                        (v.mana = u.mana /\ restored("mana", 0, v))
      ]_vars

\* heal(200) on a wounded unit reported less than 200 and filled health up
RestoreWitness ==
    /\ pc = "unit" /\ call.op = "heal" /\ call.arg = 200
    /\ LET u == unitOf(call.who)
       IN  /\ u.health = u.maxHealth
           /\ \E d \in 1..199 : restored("heal", d, u)

\* C19: usePotion(index) with 0 <= index < number of potions succeeds,
\* adds the potion's amount to health (health potion) or to mana (mana
\* potion) up to the maximum, leaves the other of the two alone, and
\* removes the potion at that index: the potions before it stay, the
\* potions after it move up by one, and the count drops by exactly 1.
UsePotionConsumesOne ==
    [][ (pc = "unit" /\ call'.op = "usePotion"
            /\ 0 <= call'.arg /\ call'.arg < Len(unitOf(call.who).potions)) =>
            LET u == unitOf(call.who)
                v == primedUnitOf(call.who)
                k == call'.arg + 1
                potion == u.potions[k]
            IN  /\ call'.ret
                /\ Len(v.potions) = Len(u.potions) - 1
                /\ \A j \in 1..Len(v.potions) :
                    v.potions[j] = (IF j < k THEN u.potions[j] ELSE u.potions[j + 1])
                /\ IF potion.isHealth
                   THEN /\ v.health = lesser(u.maxHealth, u.health + potion.amount)
                        /\ v.mana = u.mana
                   ELSE /\ v.mana = lesser(u.maxMana, u.mana + potion.amount)
                        /\ v.health = u.health
      ]_vars

\* the mana potion in the middle of three potions was used and restored 20
UsePotionWitness ==
    /\ pc = "unit" /\ call.op = "usePotion" /\ call.arg = 1 /\ call.ret
    /\ LET u == unitOf(call.who)
       IN  /\ u.potions = <<[amount |-> 30, isHealth |-> TRUE], [amount |-> 30, isHealth |-> TRUE]>>
           /\ restored("mana", 20, u)

\* C20: usePotion(index) with index < 0 or index >= number of potions
\* returns failure and changes nothing of the unit.
BadPotionIndexIsNoOp ==
    [][ (pc = "unit" /\ call'.op = "usePotion"
            /\ (call'.arg < 0 \/ call'.arg >= Len(unitOf(call.who).potions))) =>
            /\ ~call'.ret
            /\ stats(primedUnitOf(call.who)) = stats(unitOf(call.who))
            /\ primedUnitOf(call.who).battleLog = <<>>
      ]_vars

\* usePotion was called with the number of potions as index on a wounded
\* unit that owns a health potion, and failed
BadPotionIndexWitness ==
    /\ pc = "unit" /\ call.op = "usePotion" /\ ~call.ret
    /\ LET u == unitOf(call.who)
       IN  /\ call.arg = Len(u.potions)
           /\ u.health < u.maxHealth
           /\ \E i \in DOMAIN u.potions : u.potions[i].isHealth

\* the constructor values of the three player classes
ClassBase ==
    [Warrior |-> [atk |-> 20, def |-> 2, hp |-> 120, mp |-> 50],
     Archer |-> [atk |-> 30, def |-> 1, hp |-> 80, mp |-> 35],
     Mage |-> [atk |-> 25, def |-> 0, hp |-> 70, mp |-> 80]]

\* the bonuses of the six equipment items
BonusOf(name) ==
    CASE name = "Fire Sword" -> [atk |-> 15, hp |-> 0, def |-> 0]
      [] name = "Ice Shield" -> [atk |-> 0, hp |-> 20, def |-> 10]
      [] name = "Vampire Ring" -> [atk |-> 5, hp |-> 0, def |-> 0]
      [] name = "Poison Dagger" -> [atk |-> 8, hp |-> 0, def |-> 0]
      [] name = "Dragon Scale" -> [atk |-> 10, hp |-> 30, def |-> 5]
      [] name = "Lightning Orb" -> [atk |-> 12, hp |-> 0, def |-> 0]
      [] OTHER -> [atk |-> 0, hp |-> 0, def |-> 0]

RECURSIVE sumBonus(_)
sumBonus(names) ==
    IF names = <<>> THEN [atk |-> 0, hp |-> 0, def |-> 0]
    ELSE LET h == BonusOf(Head(names))
             t == sumBonus(Tail(names))
         IN  [atk |-> h.atk + t.atk, hp |-> h.hp + t.hp, def |-> h.def + t.def]

permanent(u) == <<u.baseAttack, u.defense, u.maxHealth, u.maxMana>>

\* upgrades chosen so far: one per item owned, and one more between the
\* upgrade menu and the item choice
upgradesDone == Len(player.equipment) + (IF pc \in {"item", "pick"} THEN 1 ELSE 0)

\* C17: in every state the player's baseAttack is the class value plus 5
\* per attack upgrade plus the attack bonuses of the owned equipment,
\* defense the class value plus 3 per defense upgrade plus the defense
\* bonuses, maxHealth the class value plus the health bonuses and maxMana
\* the class value; the four values do not change during a battle and
\* never go down.
EquipmentAppliedOnce ==
    /\ [](LET base == ClassBase[player.cls]
              sum == sumBonus(player.equipment)
          IN  /\ \E a, d \in 0..4 :
                    /\ a + d <= upgradesDone
                    /\ player.baseAttack = base.atk + 5 * a + sum.atk
                    /\ player.defense = base.def + 3 * d + sum.def
              /\ player.maxHealth = base.hp + sum.hp
              /\ player.maxMana = base.mp)
    /\ [][ /\ (pc \in BattlePcs \cup {"start", "flip"}) =>
                permanent(player') = permanent(player)
           /\ \A i \in 1..4 : permanent(player')[i] >= permanent(player)[i]
         ]_vars

\* the Warrior owns the Fire Sword and the Dragon Scale and took the attack
\* upgrade once
EquipmentWitness ==
    /\ pc = "start" /\ stage = 3
    /\ player.cls = "Warrior"
    /\ player.equipment = <<"Fire Sword", "Dragon Scale">>
    /\ player.baseAttack = 50 /\ player.defense = 7 /\ player.maxHealth = 150

\* the step added the narration of skill n to the log of the unit
usedSkill(before, after, n) ==
    \E i \in DOMAIN after.battleLog :
        /\ i > Len(before.battleLog)
        /\ after.battleLog[i].kind = "skill" /\ after.battleLog[i].a = n

\* C18: a Life Drain cast by the Mage with mana >= 25 takes exactly 25
\* mana, lowers the target's health by max(1, ATK + 5 - defense) floored at
\* 0 and raises the caster's health by floor((ATK + 5) / 2) capped at
\* maxHealth.
LifeDrainContract ==
    [][ (pc = "pTurn" /\ player.cls = "Mage" /\ player.mana >= 25
            /\ usedSkill(player, player', 3)) =>
            LET raw == player.currentAttack + 5
                dealt == IF raw - boss.defense >= 1 THEN raw - boss.defense ELSE 1
            IN  /\ player'.mana = player.mana - 25
                /\ boss'.health = (IF boss.health - dealt >= 0 THEN boss.health - dealt ELSE 0)
                /\ player'.health = lesser(player.maxHealth, player.health + raw \div 2)
      ]_vars

lifeDrain30(e) == e.kind = "skill" /\ e.a = 3 /\ e.b = 30
healed15(e) == e.kind = "heal" /\ e.a = 15
took30(e) == e.kind = "damage" /\ e.a = 30 /\ e.c = e.b - 30

\* the Mage (ATK 25) drained the stage 1 boss (defense 0): the boss lost 30
\* and the Mage gained 15
LifeDrainWitness ==
    /\ pc = "pTick" /\ stage = 1 /\ player.cls = "Mage"
    /\ hasEntry(player, lifeDrain30) /\ hasEntry(player, healed15)
    /\ hasEntry(boss, took30)

\* a Life Drain with an odd amount: ATK 40, 45 raw, 22 gained
LifeDrainOddWitness ==
    /\ pc = "pTick" /\ player.cls = "Mage" /\ player.currentAttack = 40
    /\ \E i \in DOMAIN player.battleLog :
        /\ player.battleLog[i].kind = "skill" /\ player.battleLog[i].a = 3
        /\ player.battleLog[i].b = 45
    /\ \E i \in DOMAIN player.battleLog :
        player.battleLog[i].kind = "heal" /\ player.battleLog[i].a = 22

\* the boss is as the constructor leaves it for stage s
freshBoss(b, s) ==
    /\ b.baseAttack = 10 + 5 * s /\ b.currentAttack = 10 + 5 * s
    /\ b.health = 70 + 20 * s /\ b.maxHealth = 70 + 20 * s
    /\ b.defense = s - 1
    /\ b.mana = 60 /\ b.maxMana = 60
    /\ DOMAIN b.statusEffects = {}

\* C21: the stage start creates the boss with attack 10 + 5s, health =
\* maxHealth = 70 + 20s, defense s - 1, mana 60 and no status effect, and
\* the boss still is so when the first round of the battle begins.
BossCreatedPerStage ==
    /\ [][(pc = "start") => (stage \in 1..5 /\ freshBoss(boss', stage))]_vars
    /\ []((pc \in {"flip", "loop"} /\ round = 0) => freshBoss(boss, stage))

\* the battle of stage 5 is about to begin against the fifth boss, with a
\* player that owns four items
BossCreatedWitness ==
    /\ pc = "loop" /\ round = 0 /\ stage = 5
    /\ boss.health = 170 /\ boss.baseAttack = 35 /\ boss.defense = 4 /\ boss.mana = 60
    /\ Len(player.equipment) = 4

\* a status table after one tick: every duration one less, entries that
\* reach 0 removed
tickedTable(t) == [e \in {x \in DOMAIN t : t[x] > 1} |-> t[e] - 1]

\* no entry of table t is missing or shorter in table n
keptIn(t, n) == \A e \in DOMAIN t : e \in DOMAIN n /\ n[e] >= t[e]

LaterEffectWins ==
    [][ (pc = "unit" /\ call.op = "addStatus" /\ call.count = 2 /\ call'.op = "tick"
            /\ {"STRENGTH_UP", "WEAKNESS"} \subseteq tableOf(unitOf(call.who))
            /\ unitOf(call.who).statusEffects["STRENGTH_UP"] >= 2
            /\ unitOf(call.who).statusEffects["WEAKNESS"] >= 2) =>
            LET u == unitOf(call.who)
                v == primedUnitOf(call.who)
            IN  v.currentAttack =
                    (IF call.arg[1] = "STRENGTH_UP" THEN u.baseAttack + 10
                     ELSE (IF u.baseAttack - 5 >= 1 THEN u.baseAttack - 5 ELSE 1))
      ]_vars

EffectKinds == {"POISON", "BLEED", "STUN", "STRENGTH_UP", "WEAKNESS"}

\* C25: between operations every entry of a status table is one of the
\* five effect kinds (never NONE) with a remaining duration of at least 1;
\* addStatus sets the entry of its effect to the given duration, replacing
\* the duration of an entry that is already there, and leaves the other
\* entries alone.
StatusTableWellFormed ==
    /\ [](\A u \in Units :
            \A e \in tableOf(u) : e \in EffectKinds /\ u.statusEffects[e] >= 1)
    /\ [][ (pc = "unit" /\ call'.op = "addStatus") =>
            LET u == unitOf(call.who)
                v == primedUnitOf(call.who)
            IN  /\ tableOf(v) = tableOf(u) \cup {call'.arg[1]}
                /\ \A e \in tableOf(v) :
                    v.statusEffects[e] =
                        (IF e = call'.arg[1] THEN call'.arg[2] ELSE u.statusEffects[e])
         ]_vars

\* POISON was applied over the POISON of the call before and its duration
\* is the new one
StatusTableWitness ==
    /\ pc = "unit" /\ call.op = "addStatus" /\ call.streak = 2
    /\ call.arg = <<"POISON", 1>>
    /\ unitOf(call.who).statusEffects["POISON"] = 1

\* C26: useSkillN succeeds exactly when the caster's mana is at least the
\* cost of the skill table; a success lowers the mana by exactly that
\* cost, a failure leaves it; mana is never negative afterwards.
SkillDebitsItsCost ==
    [][ (pc = "unit" /\ call'.op = "skill") =>
            LET u == unitOf(call.who)
                v == primedUnitOf(call.who)
                cost == SkillCostTable[u.cls][call'.arg]
            IN  /\ call'.ret <=> (u.mana >= cost)
                /\ v.mana = (IF u.mana >= cost THEN u.mana - cost ELSE u.mana)
                /\ v.mana >= 0
      ]_vars

\* the Archer has spent the last of its 35 mana on a skill that cost
\* exactly what was left
SkillDebitWitness ==
    /\ pc = "unit" /\ call.op = "skill" /\ call.ret /\ call.who = "player"
    /\ player.cls = "Archer" /\ player.mana = 0

stunned(u) == "STUN" \in tableOf(u)

bossStunnedEntry(e) == e.kind = "bossStunned"

\* C27: a STUN entry stays in the target's table until the target's next
\* action slot and makes that slot a skip: no status tick of the target
\* runs while the entry is there, a slot that begins with the entry takes
\* no action, and the entry leaves the table in that slot and nowhere
\* else during the battle.
StunTakesEffect ==
    [][ /\ (pc = "pTick") => ~stunned(player)
        /\ (pc = "bTick") => ~stunned(boss)
        /\ (pc = "pTurn" /\ stunned(player)) =>
            /\ pc' = "pTick" /\ ~stunned(player')
            /\ stats(boss') = stats(boss)
            /\ player'.health = player.health /\ player'.mana = player.mana
            /\ player'.potions = player.potions
        /\ (pc = "bTurn" /\ stunned(boss)) =>
            /\ pc' = "bTick" /\ ~stunned(boss')
            /\ stats(player') = stats(player)
            /\ boss'.health = boss.health /\ boss'.mana = boss.mana
        /\ (stunned(player) /\ ~stunned(player')) => pc = "pTurn"
        /\ (pc \in BattlePcs /\ stunned(boss) /\ ~stunned(boss')) => pc = "bTurn"
      ]_vars

\* with the boss first, the boss was stunned in one round and its slot of
\* the next round has just been skipped
StunTakesEffectWitness ==
    /\ pc = "bTick" /\ ~playerFirst /\ round >= 2
    /\ hasEntry(player, bossStunnedEntry)
    /\ ~stunned(boss)

RewardPcs == {"drop", "upgrade", "item", "pick", "won"}

\* C28: the reward phase, the next stage and the win are reached only with
\* the player's health above 0; a battle that ends with the player at 0
\* ends in the loss, whatever the boss's health, and nothing follows the
\* loss.
RewardsOnlyIfAlive ==
    /\ []((pc \in RewardPcs \/ (pc = "start" /\ stage > 1)) => player.health > 0)
    /\ [][ /\ (pc \in BattlePcs /\ pc' \notin BattlePcs /\ player'.health = 0) =>
                pc' = "lost"
           /\ (pc = "lost") => FALSE
         ]_vars

\* the campaign is lost with both units at health 0
BothDeadIsLossWitness ==
    pc = "lost" /\ player.health = 0 /\ boss.health = 0 /\ stage \in 1..5

\* C29: a player at health 0 stays at health 0, and so does the boss for
\* the rest of its battle.
DeathIsAbsorbing ==
    [][ /\ (player.health = 0) => player'.health = 0
        /\ (pc \in BattlePcs /\ boss.health = 0) => boss'.health = 0
      ]_vars

\* the player went first and died from the tick of its slot; the boss has
\* taken its slot after that and the player is still at 0
DeathIsAbsorbingWitness ==
    /\ pc = "bTick" /\ playerFirst /\ player.health = 0
    /\ hasEntry(player, killedByTick)

isPrefix(s, t) == Len(s) <= Len(t) /\ SubSeq(t, 1, Len(s)) = s

\* C30: from the end of a battle to the first round of the next one the
\* player's status table does not change, its potions only grow by the
\* drop, its health changes only by the heal upgrade or by the health
\* bonus of the chosen item and its mana only by the mana upgrade; the
\* stage start, the coin flip and the entry into the round loop leave the
\* player's health, mana, status table and potions as they are.
PlayerCarriedOver ==
    [][ /\ (pc \in {"start", "flip", "loop"}) =>
            /\ player'.health = player.health /\ player'.mana = player.mana
            /\ player'.statusEffects = player.statusEffects
            /\ player'.potions = player.potions
        /\ (pc \in {"drop", "upgrade", "item", "pick"}) =>
            /\ player'.statusEffects = player.statusEffects
            /\ isPrefix(player.potions, player'.potions)
            /\ (pc # "drop") => player'.potions = player.potions
            /\ (pc \notin {"upgrade", "pick"}) =>
                (player'.health = player.health /\ player'.mana = player.mana)
            /\ (pc = "upgrade") =>
                /\ player'.health \in {player.health,
                                       lesser(player.maxHealth, player.health + 30)}
                /\ player'.mana \in {player.mana, lesser(player.maxMana, player.mana + 20)}
            /\ (pc = "pick") =>
                /\ player'.health - player.health = player'.maxHealth - player.maxHealth
                /\ player'.mana = player.mana
      ]_vars

\* the battle of stage 2 is about to begin with a player that is wounded,
\* has spent mana and still carries the POISON of stage 1
PlayerCarriedOverWitness ==
    /\ pc = "loop" /\ stage = 2 /\ round = 0
    /\ "POISON" \in tableOf(player)
    /\ player.health < player.maxHealth /\ player.mana < player.maxMana
    /\ boss.health = boss.maxHealth

\* the step added the boss's draw a (rand() % 4) to the player's log
bossDrew(a) ==
    \E i \in DOMAIN player'.battleLog :
        /\ i > Len(player.battleLog)
        /\ player'.battleLog[i].kind = "bossAction" /\ player'.battleLog[i].a = a

failedSkill(e) == e.kind = "nomp"

\* C31: the boss enters its battle with 60 mana; during the battle its
\* mana never goes up and stays within 0..60; it goes down only in the
\* boss's own slot, by the cost 15, 20 or 25 of the skill drawn, so the
\* costs of the successful skills sum to 60 - mana <= 60 and there are at
\* most 60 / 15 = 4 of them; a skill drawn with less mana than its cost
\* fails and takes nothing from the player.
BossManaBudget ==
    /\ []((pc = "flip") => boss.mana = 60)
    /\ []((pc \in BattlePcs) => (0 <= boss.mana /\ boss.mana <= 60))
    /\ [][ (pc \in BattlePcs) =>
            /\ boss'.mana <= boss.mana
            /\ (boss'.mana # boss.mana) =>
                /\ pc = "bTurn"
                /\ \E n \in 1..3 :
                    /\ bossDrew(n - 1) /\ usedSkill(boss, boss', n)
                    /\ boss.mana - boss'.mana = <<15, 20, 25>>[n]
            /\ \A n \in 1..3 :
                (pc = "bTurn" /\ bossDrew(n - 1) /\ boss.mana < <<15, 20, 25>>[n]) =>
                    /\ boss'.mana = boss.mana
                    /\ hasEntry(boss', failedSkill)
                    /\ player'.health = player.health
                    /\ player'.statusEffects = player.statusEffects
         ]_vars

\* the boss has spent all of its 60 mana and the skill it drew after that
\* has failed
BossManaWitness ==
    /\ pc = "bTick" /\ boss.mana = 0 /\ hasEntry(boss, failedSkill)
    /\ player.health > 0

\* four successful skills: the stage 1 boss used its first skill four times
\* on the Warrior (33 each), and the fifth call failed
FourSkillsWitness ==
    /\ pc = "unit" /\ stage = 1 /\ call.who = "boss" /\ call.op = "skill" /\ ~call.ret
    /\ boss.mana = 0 /\ player.cls = "Warrior" /\ player.health = 0

\* the step takes the player's slot and changes nothing but the player's
\* log, to which it adds the entries logged
slotTaken(logged) ==
    /\ pc' = "pTick"
    /\ player' = [player EXCEPT !.battleLog = @ \o logged]
    /\ UNCHANGED <<boss, stage, playerFirst, round>>

\* C32: at the player's menu the Inventory can always be chosen without
\* using a potion; an Inventory choice that uses no potion changes neither
\* unit (stats, potions, effects and log included) and takes the player's
\* slot exactly as a pass does, which only adds its log entry; the tick
\* that follows either runs the player's effects once and hands the turn
\* on, never back to the player's menu.
InventoryLookTakesTheSlot ==
    /\ []((pc = "pTurn" /\ ~hasStatus(player, "STUN") /\ FreeBattle) =>
            ENABLED (PlayerInventory /\ slotTaken(<<>>)))
    /\ [][ /\ PlayerInventory =>
                \/ Len(player'.potions) = Len(player.potions) - 1
                \/ slotTaken(<<>>)
           /\ PlayerPass => slotTaken(<<Entry("pass", 0, 0, 0, "")>>)
           /\ (pc = "pTick") =>
                /\ player'.statusEffects = tickedTable(player.statusEffects)
                /\ player'.potions = player.potions
                /\ boss' = boss
                /\ pc' # "pTurn"
                /\ (playerFirst /\ isAlive(boss)) => pc' = "bTurn"
         ]_vars

poisonTick(e) == e.kind = "damage" /\ e.src = "Poison"

\* the poisoned player, holding potions, opened the Inventory and cancelled:
\* the round's log starts with the poison's tick, the potions are kept and
\* it is the boss's turn
InventoryCancelWitness ==
    /\ pc = "bTurn" /\ playerFirst /\ FreeBattle
    /\ Len(player.potions) > 0
    /\ player.battleLog # <<>> /\ poisonTick(player.battleLog[1])
    /\ "POISON" \in DOMAIN player.statusEffects /\ player.statusEffects["POISON"] = 2

\* the same with nothing in the inventory
EmptyInventoryWitness ==
    /\ pc = "bTurn" /\ playerFirst /\ FreeBattle
    /\ player.potions = <<>> /\ player.equipment = <<>>
    /\ player.battleLog # <<>> /\ poisonTick(player.battleLog[1])

====
